---- MODULE Spec2Model ----
(***************************************************************************)
(* Model of portfolio_api_composition.py: one run of main(), which opens a *)
(* session to the brokerage API, fetches the positions of the first        *)
(* brokerage account, classifies them into four buckets and prints a       *)
(* report.                                                                 *)
(*                                                                         *)
(* Text is modelled as a sequence of code points: an ASCII character is    *)
(* the one-character string, a Cyrillic character is named by its code     *)
(* point ("U+041E").  A Python dict is modelled as a sequence of           *)
(* [key, val] entries in insertion order; assigning to an existing key     *)
(* replaces the value in place.                                            *)
(***************************************************************************)
EXTENDS Integers, Sequences, FiniteSets

VARIABLES TOKEN,      \* module-level TOKEN (line 25); <<>> when not set
          pc,         \* position of the single thread of control
          session,    \* "none" | "open" | "closed": the Client context
          calls,      \* requests sent to the remote service, with responses
          accounts,   \* response of get_accounts
          portfolio,  \* response of get_portfolio: records [figi, units]
          idx,        \* index of the next record of the for loop (line 52)
          positions,  \* the dict built by get_portfolio_composition
          result,     \* main's `positions`: the value returned by the fetch
          buckets,    \* bonds, stocks, etfs, others of the report stage
          console,    \* lines printed to standard output
          log         \* records written by logging.error

vars == <<TOKEN, pc, session, calls, accounts, portfolio, idx, positions,
          result, buckets, console, log>>

----------------------------------------------------------------------------
(* Bounds and program constants *)

MaxPositions == 2

BROKER_ACCOUNT_TYPE == 1
FIGI_PREFIX_LEN == 8
MAX_STOCK_TICKER_LEN == 5
TOKEN_PREFIX_LEN == 10
GROUP_SIZE == 3

----------------------------------------------------------------------------
(* String literals of the program *)

STR_RU000 == <<"R", "U", "0", "0", "0">>
STR_RU == <<"R", "U">>
STR_T == <<"T">>
STR_ETF == <<"E", "T", "F">>
STR_OFZ == <<"U+041E", "U+0424", "U+0417">>
STR_BO == <<"U+0411", "U+041E">>
STR_FOND == <<"U+0444", "U+043E", "U+043D", "U+0434">>
UNKNOWN_NAME == <<"U+041D", "U+0435", "U+0438", "U+0437", "U+0432", "U+0435",
                  "U+0441", "U+0442", "U+043D", "U+043E">>

----------------------------------------------------------------------------
(* Python string and dict primitives *)

Min(a, b) == IF a < b THEN a ELSE b

\* s.startswith(p)
startswith(s, p) == Len(s) >= Len(p) /\ SubSeq(s, 1, Len(p)) = p

\* sub in s
contains(s, sub) ==
    \E i \in 1..(Len(s) - Len(sub) + 1) : SubSeq(s, i, i + Len(sub) - 1) = sub

\* s[:n]
slice_to(s, n) == SubSeq(s, 1, Min(n, Len(s)))

DictKeys(d) == {d[i].key : i \in 1..Len(d)}

DictHas(d, k) == \E i \in 1..Len(d) : d[i].key = k

DictGet(d, k) == d[CHOOSE i \in 1..Len(d) : d[i].key = k].val

\* d[k] = v
DictSet(d, k, v) ==
    IF DictHas(d, k)
    THEN [i \in 1..Len(d) |-> IF d[i].key = k THEN [key |-> k, val |-> v] ELSE d[i]]
    ELSE Append(d, [key |-> k, val |-> v])

RECURSIVE SumQuantity(_)
\* sum(data['quantity'] for data in d.values())
SumQuantity(d) ==
    IF d = <<>> THEN 0 ELSE d[1].val.quantity + SumQuantity(Tail(d))

----------------------------------------------------------------------------
(* format_quantity, lines 27-29 *)

DigitChar(d) ==
    CASE d = 0 -> "0" [] d = 1 -> "1" [] d = 2 -> "2" [] d = 3 -> "3"
      [] d = 4 -> "4" [] d = 5 -> "5" [] d = 6 -> "6" [] d = 7 -> "7"
      [] d = 8 -> "8" [] d = 9 -> "9"

RECURSIVE NatDigits(_)
NatDigits(n) ==
    IF n < 10 THEN <<DigitChar(n)>>
    ELSE Append(NatDigits(n \div 10), DigitChar(n % 10))

\* str(n)
IntStr(n) == IF n < 0 THEN <<"-">> \o NatDigits(0 - n) ELSE NatDigits(n)

RECURSIVE GroupDigits(_, _)
\* the "," format option: a separator before every group of three digits,
\* counted from the right
GroupDigits(ds, sep) ==
    IF Len(ds) <= GROUP_SIZE THEN ds
    ELSE GroupDigits(SubSeq(ds, 1, Len(ds) - GROUP_SIZE), sep)
         \o <<sep>> \o SubSeq(ds, Len(ds) - GROUP_SIZE + 1, Len(ds))

RECURSIVE ReplaceChar(_, _, _)
\* s.replace(old, new) for one-character old and new
ReplaceChar(s, old, new) ==
    IF s = <<>> THEN <<>>
    ELSE <<IF Head(s) = old THEN new ELSE Head(s)>> \o ReplaceChar(Tail(s), old, new)

FormatComma(n) ==
    IF n < 0 THEN <<"-">> \o GroupDigits(NatDigits(0 - n), ",")
    ELSE GroupDigits(NatDigits(n), ",")

format_quantity(quantity) == ReplaceChar(FormatComma(quantity), ",", " ")

----------------------------------------------------------------------------
(* categorize_assets, lines 85-107 *)

BucketNames == <<"bonds", "stocks", "etfs", "others">>

EmptyBuckets == [bonds |-> <<>>, stocks |-> <<>>, etfs |-> <<>>, others |-> <<>>]

\* ClassifyBucket with the fund test placed before the bond test
ClassifyBucketFundsFirst(ticker, name) ==
    IF startswith(ticker, STR_T) /\ (contains(name, STR_ETF) \/ contains(name, STR_FOND))
    THEN "etfs"
    ELSE IF startswith(ticker, STR_RU000) \/ contains(name, STR_OFZ) \/ contains(name, STR_BO)
    THEN "bonds"
    ELSE IF Len(ticker) <= MAX_STOCK_TICKER_LEN /\ ~startswith(ticker, STR_RU)
    THEN "stocks"
    ELSE "others"

\* the if / elif chain of lines 98-105
ClassifyBucket(ticker, name) ==
    IF startswith(ticker, STR_RU000) \/ contains(name, STR_OFZ) \/ contains(name, STR_BO)
    THEN "bonds"
    ELSE IF startswith(ticker, STR_T) /\ (contains(name, STR_ETF) \/ contains(name, STR_FOND))
    THEN "etfs"
    ELSE IF Len(ticker) <= MAX_STOCK_TICKER_LEN /\ ~startswith(ticker, STR_RU)
    THEN "stocks"
    ELSE "others"

\* one iteration of the loop of line 92: bucket[ticker] = {name, quantity}
CategorizeOne(b, data) ==
    LET which == ClassifyBucket(data.ticker, data.name)
    IN  [b EXCEPT ![which] =
            DictSet(b[which], data.ticker,
                    [name |-> data.name, quantity |-> data.quantity])]

RECURSIVE CategorizeFrom(_, _)
CategorizeFrom(ps, b) ==
    IF ps = <<>> THEN b
    ELSE CategorizeFrom(Tail(ps), CategorizeOne(b, Head(ps).val))

categorize_assets(ps) == CategorizeFrom(ps, EmptyBuckets)

----------------------------------------------------------------------------
(* sorted(items, key=quantity, reverse=True), lines 128, 137, 146, 155 *)

RECURSIVE Reverse(_)
Reverse(s) == IF s = <<>> THEN <<>> ELSE Append(Reverse(Tail(s)), Head(s))

RECURSIVE InsertAsc(_, _)
\* x goes after every element whose quantity is not larger
InsertAsc(s, x) ==
    IF s = <<>> THEN <<x>>
    ELSE IF x.val.quantity < Head(s).val.quantity THEN <<x>> \o s
    ELSE <<Head(s)>> \o InsertAsc(Tail(s), x)

RECURSIVE StableSortAsc(_)
StableSortAsc(s) ==
    IF s = <<>> THEN <<>>
    ELSE InsertAsc(StableSortAsc(SubSeq(s, 1, Len(s) - 1)), s[Len(s)])

\* sorted_reverse that only reverses the ascending outcome: equal keys
\* come out in reverse insertion order
sorted_reverse_unstable(items) == Reverse(StableSortAsc(items))

\* reverse=True reverses the list, sorts it with the stable ascending sort
\* and reverses the outcome
sorted_reverse(items) == Reverse(StableSortAsc(Reverse(items)))

----------------------------------------------------------------------------
(* display_portfolio_composition, lines 109-172 *)

Line(kind, bucket, ticker, name, text) ==
    [kind |-> kind, bucket |-> bucket, ticker |-> ticker, name |-> name, text |-> text]

Plain(kind) == Line(kind, "", <<>>, <<>>, <<>>)

\* print(f"${ticker}; {data['name']}; {format_quantity(data['quantity'])}")
HoldingLine(bucket, item) ==
    Line("holding", bucket, item.key, item.val.name, format_quantity(item.val.quantity))

\* one "if bucket:" block
Section(bucket, d) ==
    IF d = <<>> THEN <<>>
    ELSE LET sorted == sorted_reverse(d)
         IN  <<Line("section", bucket, <<>>, <<>>, <<>>), Plain("dash")>>
             \o [i \in 1..Len(sorted) |-> HoldingLine(bucket, sorted[i])]

\* the statistics of lines 161-172
Statistics(ps, b) ==
    LET total_bonds == SumQuantity(b.bonds)
        total_stocks == SumQuantity(b.stocks)
        total_etfs == SumQuantity(b.etfs)
        total_others == SumQuantity(b.others)
    IN  << Line("subtotal", "bonds", <<>>, <<>>, format_quantity(total_bonds)),
           Line("subtotal", "stocks", <<>>, <<>>, format_quantity(total_stocks)),
           Line("subtotal", "etfs", <<>>, <<>>, format_quantity(total_etfs)),
           Line("subtotal", "others", <<>>, <<>>, format_quantity(total_others)),
           Line("total_assets", "", <<>>, <<>>, IntStr(Len(ps))),
           Line("total_quantity", "", <<>>, <<>>,
                format_quantity(total_bonds + total_stocks + total_etfs + total_others)) >>

\* everything display_portfolio_composition(ps) prints, in order
display_lines(ps) ==
    IF ps = <<>> THEN <<Plain("no_data")>>
    ELSE LET b == categorize_assets(ps)
         IN  <<Plain("title"), Plain("rule"), Plain("format"), Plain("rule")>>
             \o Section("bonds", b.bonds)
             \o Section("stocks", b.stocks)
             \o Section("etfs", b.etfs)
             \o Section("others", b.others)
             \o <<Plain("rule")>>
             \o Statistics(ps, b)

\* the buckets display_portfolio_composition holds after line 121
display_buckets(ps) == IF ps = <<>> THEN EmptyBuckets ELSE categorize_assets(ps)

----------------------------------------------------------------------------
(* The environment: credential, remote service responses *)

Tokens == { <<>>, <<"t", ".", "A", "B", "C", "D", "E", "F", "G", "H", "I", "J">> }

Account(id, type) == [id |-> id, type |-> type]

\* account listings the service may return
AccountLists ==
    { <<>>,
      <<Account("a1", 2)>>,
      <<Account("a1", BROKER_ACCOUNT_TYPE)>>,
      <<Account("a1", 2), Account("a2", BROKER_ACCOUNT_TYPE)>> }

FIGI_A == <<"F", "I", "G", "I", "0", "0", "0", "0", "1">>
FIGI_B == <<"F", "I", "G", "I", "0", "0", "0", "0", "2">>
FIGI_C == <<"B", "B", "G", "0", "0", "0", "0", "0", "C">>

Figis == {FIGI_A, FIGI_B, FIGI_C}

Units == {-1, 0, 5, 1000}

NAME_SBER == <<"U+0421", "U+0431", "U+0435", "U+0440">>
NAME_OFZ == STR_OFZ \o <<" ", "2">>
TICKER_SBER == <<"S", "B", "E", "R">>
TICKER_BOND == <<"R", "U", "0", "0", "0", "A", "1">>

\* what the instrument service knows: two identifiers share a ticker
Instruments(figi) ==
    CASE figi = FIGI_A -> [name |-> NAME_SBER, ticker |-> TICKER_SBER]
      [] figi = FIGI_B -> [name |-> NAME_SBER, ticker |-> TICKER_SBER]
      [] figi = FIGI_C -> [name |-> NAME_OFZ, ticker |-> TICKER_BOND]

PortfolioRecords == [figi : Figis, units : Units]


Call(op, arg, resp) == [op |-> op, arg |-> arg, resp |-> resp]

LogRecord(kind, figi) == [kind |-> kind, figi |-> figi]

None == [none |-> TRUE, positions |-> <<>>]

Some(ps) == [none |-> FALSE, positions |-> ps]

----------------------------------------------------------------------------
(* get_portfolio_composition, lines 31-83 *)

\* FirstBroker without the type test: the first account of the listing
FirstBrokerAnyType(accs) == IF Len(accs) > 0 THEN 1 ELSE 0

\* next((acc for acc in accounts if acc.type == 1), None); 0 stands for None
FirstBroker(accs) ==
    IF \E i \in 1..Len(accs) : accs[i].type = BROKER_ACCOUNT_TYPE
    THEN CHOOSE i \in 1..Len(accs) :
            /\ accs[i].type = BROKER_ACCOUNT_TYPE
            /\ \A j \in 1..(i - 1) : accs[j].type # BROKER_ACCOUNT_TYPE
    ELSE 0

\* IsActive with >= in place of >
IsActiveNonNegative(position) == position.units >= 0

\* position.quantity.units > 0, line 53
IsActive(position) == position.units > 0

\* lines 64-68
StoreFound(ps, figi, quantity, instrument) ==
    DictSet(ps, figi, [quantity |-> quantity, name |-> instrument.name,
                       ticker |-> instrument.ticker])

\* lines 72-76
StoreFallback(ps, figi, quantity) ==
    DictSet(ps, figi, [quantity |-> quantity, name |-> UNKNOWN_NAME,
                       ticker |-> slice_to(figi, FIGI_PREFIX_LEN)])

\* what the except clause of lines 198-204 prints
CriticalLines ==
    <<Plain("critical"), Plain("check"), Plain("check_token"),
      Plain("check_api"), Plain("check_positions")>>

\* FetchFailed without the except clause of line 80: the exception leaves
\* the with block and reaches the handler of lines 198-204
FetchFailedPropagates ==
    /\ log' = Append(log, LogRecord("critical", <<>>))
    /\ console' = console \o CriticalLines
    /\ result' = None
    /\ session' = "closed"
    /\ pc' = "done"

\* the except clause of lines 80-83
FetchFailed ==
    /\ log' = Append(log, LogRecord("portfolio_error", <<>>))
    /\ console' = Append(console, Plain("portfolio_error"))
    /\ result' = None
    /\ session' = session
    /\ pc' = "dispatch"

\* lines 35-43, the listing answers
GetAccounts ==
    /\ pc = "get_accounts"
    /\ \E accs \in AccountLists :
          /\ accounts' = accs
          /\ calls' = Append(calls, Call("get_accounts", <<>>, "ok"))
          /\ IF FirstBroker(accs) = 0
             THEN /\ console' = Append(console, Plain("no_broker_account"))
                  /\ result' = None
                  /\ pc' = "dispatch"
             ELSE /\ console' = Append(console,
                         Line("using_account", "", <<>>, <<>>,
                              <<accs[FirstBroker(accs)].id>>))
                  /\ result' = result
                  /\ pc' = "get_portfolio"
    /\ UNCHANGED <<TOKEN, session, portfolio, idx, positions, buckets, log>>

\* line 35 raises
GetAccountsFails ==
    /\ pc = "get_accounts"
    /\ calls' = Append(calls, Call("get_accounts", <<>>, "raise"))
    /\ FetchFailed
    /\ UNCHANGED <<TOKEN, accounts, portfolio, idx, positions, buckets>>

\* lines 46-49, the snapshot arrives
GetPortfolio ==
    /\ pc = "get_portfolio"
    /\ \E n \in 0..MaxPositions : \E p \in [1..n -> PortfolioRecords] :
          portfolio' = p
    /\ calls' = Append(calls, Call("get_portfolio", <<>>, "ok"))
    /\ positions' = <<>>
    /\ idx' = 1
    /\ pc' = "loop"
    /\ UNCHANGED <<TOKEN, session, accounts, result, buckets, console, log>>

\* line 46 raises
GetPortfolioFails ==
    /\ pc = "get_portfolio"
    /\ calls' = Append(calls, Call("get_portfolio", <<>>, "raise"))
    /\ FetchFailed
    /\ UNCHANGED <<TOKEN, accounts, portfolio, idx, positions, buckets>>

InLoop == pc = "loop" /\ idx <= Len(portfolio)

\* line 53 false: the record is skipped
SkipInactive ==
    /\ InLoop
    /\ ~IsActive(portfolio[idx])
    /\ idx' = idx + 1
    /\ UNCHANGED <<TOKEN, pc, session, calls, accounts, portfolio, positions,
                   result, buckets, console, log>>

\* lines 59-68, the lookup returns an instrument
LookupFound ==
    /\ InLoop
    /\ IsActive(portfolio[idx])
    /\ LET figi == portfolio[idx].figi
           quantity == portfolio[idx].units
       IN  /\ calls' = Append(calls, Call("get_instrument_by", figi, "ok"))
           /\ positions' = StoreFound(positions, figi, quantity, Instruments(figi))
    /\ idx' = idx + 1
    /\ UNCHANGED <<TOKEN, pc, session, accounts, portfolio, result, buckets,
                   console, log>>

\* lines 59-60, the lookup returns a response without an instrument
LookupNoInstrument ==
    /\ InLoop
    /\ IsActive(portfolio[idx])
    /\ calls' = Append(calls, Call("get_instrument_by", portfolio[idx].figi, "none"))
    /\ idx' = idx + 1
    /\ UNCHANGED <<TOKEN, pc, session, accounts, portfolio, positions, result,
                   buckets, console, log>>

\* lines 59, 69-76, the lookup raises
LookupRaises ==
    /\ InLoop
    /\ IsActive(portfolio[idx])
    /\ LET figi == portfolio[idx].figi
           quantity == portfolio[idx].units
       IN  /\ calls' = Append(calls, Call("get_instrument_by", figi, "raise"))
           /\ log' = Append(log, LogRecord("instrument_error", figi))
           /\ positions' = StoreFallback(positions, figi, quantity)
    /\ idx' = idx + 1
    /\ UNCHANGED <<TOKEN, pc, session, accounts, portfolio, result, buckets,
                   console>>

\* line 78
FetchReturn ==
    /\ pc = "loop"
    /\ idx > Len(portfolio)
    /\ result' = Some(positions)
    /\ pc' = "dispatch"
    /\ UNCHANGED <<TOKEN, session, calls, accounts, portfolio, idx, positions,
                   buckets, console, log>>

----------------------------------------------------------------------------
(* main, lines 174-204 *)

\* lines 182-183
StartLines ==
    <<Plain("start"),
      Line("token_found", "", <<>>, <<>>, slice_to(TOKEN, TOKEN_PREFIX_LEN))>>

\* Truthy as `positions is not None`
TruthyNotNone(r) == ~r.none

\* `if positions:` of line 192: neither None nor an empty dict
Truthy(r) == ~r.none /\ Len(r.positions) > 0

\* lines 176-180
MainNoToken ==
    /\ pc = "start"
    /\ TOKEN = <<>>
    /\ console' = console \o <<Plain("no_token"), Plain("hint_env"), Plain("hint_token")>>
    /\ pc' = "done"
    /\ UNCHANGED <<TOKEN, session, calls, accounts, portfolio, idx, positions,
                   result, buckets, log>>

\* lines 182-187, the session opens
MainConnect ==
    /\ pc = "start"
    /\ TOKEN # <<>>
    /\ session' = "open"
    /\ console' = console \o StartLines \o <<Plain("connected")>>
    /\ pc' = "get_accounts"
    /\ UNCHANGED <<TOKEN, calls, accounts, portfolio, idx, positions, result,
                   buckets, log>>

\* line 186 raises: no session, the handler of lines 198-204 runs
MainConnectFails ==
    /\ pc = "start"
    /\ TOKEN # <<>>
    /\ log' = Append(log, LogRecord("critical", <<>>))
    /\ console' = console \o StartLines \o CriticalLines
    /\ pc' = "done"
    /\ UNCHANGED <<TOKEN, session, calls, accounts, portfolio, idx, positions,
                   result, buckets>>

\* lines 192, 195-196, then the with block ends
MainNoData ==
    /\ pc = "dispatch"
    /\ ~Truthy(result)
    /\ console' = Append(console, Plain("no_portfolio_data"))
    /\ session' = "closed"
    /\ pc' = "done"
    /\ UNCHANGED <<TOKEN, calls, accounts, portfolio, idx, positions, result,
                   buckets, log>>

\* lines 192-194, then the with block ends
MainDisplay ==
    /\ pc = "dispatch"
    /\ Truthy(result)
    /\ console' = console \o display_lines(result.positions)
    /\ buckets' = display_buckets(result.positions)
    /\ session' = "closed"
    /\ pc' = "done"
    /\ UNCHANGED <<TOKEN, calls, accounts, portfolio, idx, positions, result, log>>

\* MainDisplayRaises with a session that only the normal path closes
MainDisplayRaisesLeak ==
    /\ pc = "dispatch"
    /\ Truthy(result)
    /\ LET lines == display_lines(result.positions)
       IN  \E k \in 0..(Len(lines) - 1) :
              /\ console' = console \o SubSeq(lines, 1, k) \o CriticalLines
              /\ buckets' = IF k >= 4 THEN display_buckets(result.positions)
                            ELSE buckets
    /\ session' = session
    /\ log' = Append(log, LogRecord("critical", <<>>))
    /\ pc' = "done"
    /\ UNCHANGED <<TOKEN, calls, accounts, portfolio, idx, positions, result>>

\* line 194 raises at one of its prints: the with block is left through
\* the exception, then the handler of lines 198-204 runs
MainDisplayRaises ==
    /\ pc = "dispatch"
    /\ Truthy(result)
    /\ LET lines == display_lines(result.positions)
       IN  \E k \in 0..(Len(lines) - 1) :
              /\ console' = console \o SubSeq(lines, 1, k) \o CriticalLines
              /\ buckets' = IF k >= 4 THEN display_buckets(result.positions)
                            ELSE buckets
    /\ session' = "closed"
    /\ log' = Append(log, LogRecord("critical", <<>>))
    /\ pc' = "done"
    /\ UNCHANGED <<TOKEN, calls, accounts, portfolio, idx, positions, result>>

----------------------------------------------------------------------------
(* One run of the program *)

Init ==
    /\ TOKEN \in Tokens
    /\ pc = "start"
    /\ session = "none"
    /\ calls = <<>>
    /\ accounts = <<>>
    /\ portfolio = <<>>
    /\ idx = 0
    /\ positions = <<>>
    /\ result = None
    /\ buckets = EmptyBuckets
    /\ console = <<>>
    /\ log = <<>>

Next ==
    \/ MainNoToken
    \/ MainConnect
    \/ MainConnectFails
    \/ GetAccounts
    \/ GetAccountsFails
    \/ GetPortfolio
    \/ GetPortfolioFails
    \/ SkipInactive
    \/ LookupFound
    \/ LookupNoInstrument
    \/ LookupRaises
    \/ FetchReturn
    \/ MainNoData
    \/ MainDisplay
    \/ MainDisplayRaises

Spec == Init /\ [][Next]_vars

----------------------------------------------------------------------------
(* The report stage on its own: categorize_assets and                      *)
(* display_portfolio_composition applied to arbitrary position dicts       *)

TICKER_T5 == <<"T", "A", "T", "N", "P">>
TICKER_RUAL == <<"R", "U", "A", "L">>
TICKER_FIGI == slice_to(FIGI_A, FIGI_PREFIX_LEN)
NAME_BO == STR_BO \o <<"-", "1">>
NAME_ETF == <<"X", " ">> \o STR_ETF
NAME_FOND == STR_FOND \o <<" ", "X">>
NAME_ETF_OFZ == STR_ETF \o <<" ">> \o STR_OFZ

InputTickers == {TICKER_BOND, TICKER_SBER, TICKER_T5, TICKER_RUAL, TICKER_FIGI}

InputNames == {NAME_OFZ, NAME_BO, NAME_ETF, NAME_FOND, NAME_SBER, NAME_ETF_OFZ}

InputQuantities == {5, 1000}

InputData == [quantity : InputQuantities, name : InputNames, ticker : InputTickers]

\* the identifier of the k-th position: identifiers are distinct
InputFigi(k) == <<"F">> \o IntStr(k)

\* the dict of n positions whose values are f[1], ..., f[n]
InputDict(n, f) == [i \in 1..n |-> [key |-> InputFigi(i), val |-> f[i]]]

InitReport ==
    /\ TOKEN = <<>>
    /\ pc = "report_input"
    /\ session = "none"
    /\ calls = <<>>
    /\ accounts = <<>>
    /\ portfolio = <<>>
    /\ idx = 0
    /\ positions = <<>>
    /\ \E n \in 0..MaxPositions : \E f \in [1..n -> InputData] :
          result = Some(InputDict(n, f))
    /\ buckets = EmptyBuckets
    /\ console = <<>>
    /\ log = <<>>

\* bonds, stocks, etfs, others = categorize_assets(positions)
CallCategorize ==
    /\ pc = "report_input"
    /\ buckets' = categorize_assets(result.positions)
    /\ pc' = "categorized"
    /\ UNCHANGED <<TOKEN, session, calls, accounts, portfolio, idx, positions,
                   result, console, log>>

\* display_portfolio_composition(positions)
CallDisplay ==
    /\ pc = "report_input"
    /\ console' = display_lines(result.positions)
    /\ buckets' = display_buckets(result.positions)
    /\ pc' = "displayed"
    /\ UNCHANGED <<TOKEN, session, calls, accounts, portfolio, idx, positions,
                   result, log>>

NextReport == CallCategorize \/ CallDisplay

SpecReport == InitReport /\ [][NextReport]_vars

----------------------------------------------------------------------------
(* Properties *)

Buckets4 == {"bonds", "stocks", "etfs", "others"}

\* the kinds of lines only display_portfolio_composition prints
ReportKinds == {"no_data", "title", "rule", "format", "section", "dash",
                "holding", "subtotal", "total_assets", "total_quantity"}

HasLine(kind) == \E i \in 1..Len(console) : console[i].kind = kind

HasLog(kind) == \E i \in 1..Len(log) : log[i].kind = kind

LastLineIs(kind) == Len(console) > 0 /\ console[Len(console)].kind = kind

TextOf(kind, bucket) ==
    console[CHOOSE i \in 1..Len(console) :
                console[i].kind = kind /\ console[i].bucket = bucket].text

DigitValue(c) ==
    CASE c = "0" -> 0 [] c = "1" -> 1 [] c = "2" -> 2 [] c = "3" -> 3
      [] c = "4" -> 4 [] c = "5" -> 5 [] c = "6" -> 6 [] c = "7" -> 7
      [] c = "8" -> 8 [] c = "9" -> 9

RECURSIVE ParseFrom(_, _)
ParseFrom(text, acc) ==
    IF text = <<>> THEN acc
    ELSE IF Head(text) = " " THEN ParseFrom(Tail(text), acc)
    ELSE ParseFrom(Tail(text), 10 * acc + DigitValue(Head(text)))

\* the number a printed quantity reads as, group separators dropped
ParseQuantity(text) == ParseFrom(text, 0)

\* the report was printed to its last line
Displayed == HasLine("total_quantity")

\* the position appears in bucket d under its ticker, with its name and quantity
InBucket(d, data) ==
    \E i \in 1..Len(d) :
        /\ d[i].key = data.ticker
        /\ d[i].val = [name |-> data.name, quantity |-> data.quantity]

BucketsOf(data) == {b \in Buckets4 : InBucket(buckets[b], data)}

EntryCount ==
    Len(buckets.bonds) + Len(buckets.stocks) + Len(buckets.etfs) + Len(buckets.others)

\* C1: once the positions are categorized, every position appears in
\* exactly one of the four buckets, and none is dropped or overwritten: the
\* buckets hold as many entries as there are positions.
C1_EveryPositionInExactlyOneBucket ==
    Displayed =>
        /\ \A i \in 1..Len(result.positions) :
              Cardinality(BucketsOf(result.positions[i].val)) = 1
        /\ EntryCount = Len(result.positions)

\* C2: after the loop handled a record with units > 0 whose lookup raised
\* or returned no instrument, the position is in the result with its
\* quantity, the unknown name and the first 8 characters of its identifier
\* as ticker, and the loop goes on.
C2_LookupFailureKeepsPosition ==
    (/\ pc = "loop"
     /\ idx > 1
     /\ portfolio[idx - 1].units > 0
     /\ calls[Len(calls)].resp \in {"none", "raise"})
    => /\ idx <= Len(portfolio) + 1
       /\ DictHas(positions, portfolio[idx - 1].figi)
       /\ DictGet(positions, portfolio[idx - 1].figi) =
             [quantity |-> portfolio[idx - 1].units,
              name |-> UNKNOWN_NAME,
              ticker |-> SubSeq(portfolio[idx - 1].figi, 1, 8)]

\* C3: in a printed report the grand total quantity is the sum of the
\* quantities of all supplied positions and the sum of the four printed
\* subtotals, and the instrument total counts all positions.
C3_GrandTotalIsSumOfPositions ==
    Displayed =>
        LET total == ParseQuantity(TextOf("total_quantity", ""))
        IN  /\ total = SumQuantity(result.positions)
            /\ total = ParseQuantity(TextOf("subtotal", "bonds"))
                       + ParseQuantity(TextOf("subtotal", "stocks"))
                       + ParseQuantity(TextOf("subtotal", "etfs"))
                       + ParseQuantity(TextOf("subtotal", "others"))
            /\ ParseQuantity(TextOf("total_assets", "")) = Len(result.positions)

\* the bucket of the first rule a position matches, in the order bonds,
\* funds, stocks, other
FirstRule(ticker, name) ==
    CASE \/ startswith(ticker, <<"R", "U", "0", "0", "0">>)
         \/ contains(name, STR_OFZ)
         \/ contains(name, STR_BO) -> "bonds"
      [] OTHER ->
    CASE /\ startswith(ticker, <<"T">>)
         /\ contains(name, <<"E", "T", "F">>) \/ contains(name, STR_FOND) -> "etfs"
      [] OTHER ->
    CASE Len(ticker) <= 5 /\ ~startswith(ticker, <<"R", "U">>) -> "stocks"
      [] OTHER -> "others"

Categorized == pc \in {"categorized", "displayed"}

\* C4: categorize_assets files every position under the bucket of the first
\* rule it matches, every bucket entry comes from a position whose first
\* rule is that bucket, and a ticker that starts with RU000 is found in
\* bonds and in no other bucket, whatever the name and the quantity.
C4_FirstMatchingRule ==
    Categorized =>
        /\ \A i \in 1..Len(result.positions) :
              LET data == result.positions[i].val
              IN  /\ DictHas(buckets[FirstRule(data.ticker, data.name)], data.ticker)
                  /\ startswith(data.ticker, <<"R", "U", "0", "0", "0">>) =>
                        /\ DictHas(buckets.bonds, data.ticker)
                        /\ \A b \in Buckets4 \ {"bonds"} : ~DictHas(buckets[b], data.ticker)
        /\ \A b \in Buckets4 : \A k \in 1..Len(buckets[b]) :
              \E i \in 1..Len(result.positions) :
                 LET data == result.positions[i].val
                 IN  /\ data.ticker = buckets[b][k].key
                     /\ data.name = buckets[b][k].val.name
                     /\ data.quantity = buckets[b][k].val.quantity
                     /\ FirstRule(data.ticker, data.name) = b

\* a position with an RU000 ticker and a fund name lies in bonds, next to a
\* position with a T ticker whose name carries a bond and a fund marker
C4_Witness ==
    /\ pc = "categorized"
    /\ \E i, j \in 1..Len(result.positions) :
          /\ startswith(result.positions[i].val.ticker, STR_RU000)
          /\ contains(result.positions[i].val.name, STR_ETF)
          /\ startswith(result.positions[j].val.ticker, STR_T)
          /\ contains(result.positions[j].val.name, STR_ETF)
          /\ contains(result.positions[j].val.name, STR_OFZ)
    /\ Len(buckets.bonds) = 2

\* C5: every position of the fetch result has a quantity > 0, which is the
\* units of a record of the snapshot with that identifier: a record with
\* units <= 0 never enters the result.
C5_OnlyPositiveQuantities ==
    \A d \in {positions, result.positions} : \A i \in 1..Len(d) :
        /\ d[i].val.quantity > 0
        /\ \E j \in 1..Len(portfolio) :
              /\ portfolio[j].figi = d[i].key
              /\ portfolio[j].units = d[i].val.quantity

\* the fetch returned positions from a snapshot that held a record with
\* units <= 0
C5_Witness ==
    /\ pc = "dispatch"
    /\ ~result.none
    /\ Len(result.positions) >= 1
    /\ \E j \in 1..Len(portfolio) : portfolio[j].units <= 0

\* C6: when the run has ended and the session had been opened, the session
\* is closed.
C6_SessionClosedAtExit ==
    (pc = "done" /\ HasLine("connected")) => session = "closed"

\* the run ended through the unexpected-failure handler with a session
\* that had been opened
C6_Witness ==
    /\ pc = "done"
    /\ HasLine("connected")
    /\ HasLog("critical")
    /\ session = "closed"

\* the listing was answered and holds no account of the brokerage type
NoBrokerListed ==
    /\ \E i \in 1..Len(calls) : calls[i] = Call("get_accounts", <<>>, "ok")
    /\ \A j \in 1..Len(accounts) : accounts[j].type # 1

\* C7: when the listing holds no brokerage account, the missing account is
\* reported, the fetch returns no data, neither the portfolio nor an
\* instrument is requested, no line of the report (its empty-state line
\* included) is printed and the run ends with main's fallback message.
C7_NoBrokerAccount ==
    NoBrokerListed =>
        /\ HasLine("no_broker_account")
        /\ result.none
        /\ \A i \in 1..Len(calls) : calls[i].op = "get_accounts"
        /\ \A i \in 1..Len(console) : console[i].kind \notin ReportKinds
        /\ buckets = EmptyBuckets
        /\ pc \in {"dispatch", "done"}
        /\ pc = "done" => LastLineIs("no_portfolio_data")

\* a run ended after a listing of non-brokerage accounts only
C7_Witness ==
    /\ NoBrokerListed
    /\ Len(accounts) > 0
    /\ pc = "done"

\* the account listing or the portfolio retrieval raised
FetchFailure ==
    \E i \in 1..Len(calls) :
        /\ calls[i].op \in {"get_accounts", "get_portfolio"}
        /\ calls[i].resp = "raise"

\* C8: when the account listing or the portfolio retrieval fails, the
\* failure is logged and reported, the fetch returns no data, no line of
\* the report is printed, the unexpected-failure handler does not run and
\* the run ends with main's fallback message and a closed session.
C8_FetchFailureStopsGracefully ==
    FetchFailure =>
        /\ HasLog("portfolio_error")
        /\ HasLine("portfolio_error")
        /\ result.none
        /\ \A i \in 1..Len(console) : console[i].kind \notin ReportKinds
        /\ ~HasLog("critical")
        /\ ~HasLine("critical")
        /\ pc \in {"dispatch", "done"}
        /\ pc = "done" => (LastLineIs("no_portfolio_data") /\ session = "closed")

\* a run ended after the portfolio retrieval raised
C8_Witness ==
    /\ pc = "done"
    /\ \E i \in 1..Len(calls) : calls[i] = Call("get_portfolio", <<>>, "raise")

HoldingLines(b) ==
    SelectSeq(console, LAMBDA l : l.kind = "holding" /\ l.bucket = b)

DictIndex(d, k) == CHOOSE i \in 1..Len(d) : d[i].key = k

\* C9: the holdings lines of a bucket are the entries of the bucket, in
\* non-increasing order of quantity, and lines of equal quantity are in the
\* insertion order of the bucket.
C9_SortedDescendingStable ==
    Displayed =>
        \A b \in Buckets4 :
            LET h == HoldingLines(b)
            IN  /\ Len(h) = Len(buckets[b])
                /\ \A i \in 1..Len(h) :
                      /\ DictHas(buckets[b], h[i].ticker)
                      /\ DictGet(buckets[b], h[i].ticker).name = h[i].name
                      /\ DictGet(buckets[b], h[i].ticker).quantity = ParseQuantity(h[i].text)
                /\ \A i, j \in 1..Len(h) :
                      i < j =>
                        /\ ParseQuantity(h[i].text) >= ParseQuantity(h[j].text)
                        /\ ParseQuantity(h[i].text) = ParseQuantity(h[j].text) =>
                              DictIndex(buckets[b], h[i].ticker)
                                 < DictIndex(buckets[b], h[j].ticker)

\* a printed bucket with two holdings of equal quantity
C9_Witness ==
    /\ pc = "displayed"
    /\ \E b \in Buckets4 :
          /\ Len(HoldingLines(b)) >= 2
          /\ \E i, j \in 1..Len(HoldingLines(b)) :
                i < j /\ HoldingLines(b)[i].text = HoldingLines(b)[j].text

\* C10: the empty-state line of the report is never printed, and a run
\* whose fetch succeeded with no retained position ends with main's
\* fallback message and without a report.
C10_EmptyResultIsNoData ==
    /\ ~HasLine("no_data")
    /\ (pc = "done" /\ ~result.none /\ result.positions = <<>>) =>
          /\ LastLineIs("no_portfolio_data")
          /\ ~HasLine("title")

\* a run ended whose snapshot held only records with units <= 0
C10_Witness ==
    /\ pc = "done"
    /\ ~result.none
    /\ result.positions = <<>>
    /\ Len(portfolio) > 0

====
